---------------------------- MODULE Spec2Model ----------------------------
(***************************************************************************)
(* A model of src/main.py: the DuckDuckGo search driver.                   *)
(*                                                                         *)
(* Python strings are sequences of one-character strings, so that          *)
(* str.lower, str.strip, str.startswith, the substring test `in` and the   *)
(* line structure of the output file are computed and not assumed.         *)
(* A missing attribute (None) and the empty string are both <<>>: every    *)
(* place of the source that reads an href tests it for truthiness only     *)
(* (`if href`, `raw or ""`).                                               *)
(*                                                                         *)
(* The browser is the external collaborator.  A page is a record           *)
(*   href   : the href of anchor k (anchors are numbered in document       *)
(*            order; the number is the element's identity)                 *)
(*   h3s    : for every <h3>, its nearest enclosing anchor `anc` and its   *)
(*            first descendant anchor `desc` (0 = there is none)           *)
(*   rl     : the anchors matching a.result__a, in document order          *)
(*   staleA : anchors whose attribute read raises                          *)
(*   staleH : headings whose find_element raises something other than      *)
(*            NoSuchElementException                                       *)
(* and a driver is a record of its window handles (in opening order), the  *)
(* focused window and every window's URL.                                  *)
(***************************************************************************)
EXTENDS Naturals, Sequences, FiniteSets, TLC

(***************************** bounds **************************************)
MaxElements == 3   \* anchors and <h3> headings on a page, together
MaxLines == 2      \* lines of the input file
MaxWindows == 3    \* windows the browser can hold open

(************************** string constants *******************************)
HTTP == <<"h","t","t","p">>
DDG == <<"d","u","c","k","d","u","c","k","g","o",".","c","o","m">>
ERR_NO_LINK == <<"E","R","R","O","R",":"," ","n","o"," ","s","u","i","t","a","b","l","e"," ","l","i","n","k"," ","f","o","u","n","d">>
ERR_LOAD == <<"E","R","R","O","R",":"," ","c","o","u","l","d"," ","n","o","t"," ","l","o","a","d"," ","s","e","a","r","c","h"," ","p","a","g","e",":"," ">>
ERR_PROC == <<"E","R","R","O","R",":"," ","e","x","c","e","p","t","i","o","n"," ","d","u","r","i","n","g"," ","p","r","o","c","e","s","s","i","n","g",":"," ">>
SEARCH_PREFIX == <<"h","t","t","p","s",":","/","/","d","u","c","k","d","u","c","k","g","o",".","c","o","m","/","?","q","=">>
TAB == "\t"
NL == "\n"

(*************************** input values **********************************)
\* hrefs a page's anchors may carry
U_A == <<"h","t","t","p",":","/","/","a",".","i","o">>
U_B == <<"h","t","t","p",":","/","/","x",".","i","o","/","B",".","C","o">>
U_D == <<"h","t","t","p",":","/","/","d","u","c","k","d","u","c","k","g","o",".","c","o","m","/","b",".","c","o">>
U_F == <<"f","t","p",":","/","/","b",".","c","o">>
Hrefs == {<<>>, U_A, U_B, U_D, U_F}
\* preferred domains
P_B == <<"B",".","C","O">>
P_x == <<"x",".","i","o">>
\* Optional[List[str]]: None, or a list
NoneList == [isNone |-> TRUE, list |-> <<>>]
SomeList(l) == [isNone |-> FALSE, list |-> l]
PrefLists == {NoneList, SomeList(<<>>), SomeList(<<P_x, P_B>>)}
\* str(e) of an exception: a plain message, and the form of selenium's
\* WebDriverException.__str__, "Message: ...\n"
MSG_PLAIN == <<"b","o","o","m">>
MSG_WD == <<"M","e","s","s","a","g","e",":"," ","s","t","a","l","e","\n">>
ExcMsgs == {MSG_PLAIN, MSG_WD}
BLANK == <<"a","b","o","u","t",":","b","l","a","n","k">>

(**************************** str methods **********************************)
Upper == <<"A","B","C","D","E","F","G","H","I","J","K","L","M","N","O","P","Q","R","S","T","U","V","W","X","Y","Z">>
Lowers == <<"a","b","c","d","e","f","g","h","i","j","k","l","m","n","o","p","q","r","s","t","u","v","w","x","y","z">>

UpperSet == {Upper[k] : k \in 1..Len(Upper)}

LowerChar(c) ==
  IF c \in UpperSet THEN Lowers[CHOOSE k \in 1..Len(Upper) : Upper[k] = c] ELSE c

\* str.lower()
Lower(s) == [k \in 1..Len(s) |-> LowerChar(s[k])]

\* str.startswith(p)
StartsWith(s, p) == Len(s) >= Len(p) /\ SubSeq(s, 1, Len(p)) = p

\* p in s
Contains(s, p) ==
  \E k \in 0..Len(s) : k + Len(p) <= Len(s) /\ SubSeq(s, k + 1, k + Len(p)) = p

IsSpace(c) == c \in {" ", TAB, NL, "\r"}

RECURSIVE LStrip(_)
LStrip(s) == IF s # <<>> /\ IsSpace(Head(s)) THEN LStrip(Tail(s)) ELSE s

RECURSIVE RStrip(_)
RStrip(s) ==
  IF s # <<>> /\ IsSpace(s[Len(s)]) THEN RStrip(SubSeq(s, 1, Len(s) - 1)) ELSE s

\* str.strip()
Strip(s) == RStrip(LStrip(s))

\* urllib.parse.quote_plus on the characters a query can hold here
QuoteChar(c) ==
  IF c = " " THEN <<"+">>
  ELSE IF c = TAB THEN <<"%","0","9">>
  ELSE <<c>>

RECURSIVE quote_plus(_)
quote_plus(s) ==
  IF s = <<>> THEN <<>> ELSE QuoteChar(Head(s)) \o quote_plus(Tail(s))

\* x in list
InSeq(x, s) == \E k \in 1..Len(s) : s[k] = x

(****************************** pages **************************************)
H3s(n) == [anc : 0..n, desc : {0}] \cup [anc : {0}, desc : 1..n]

SeqsUpTo(S, m) == UNION {[1..k -> S] : k \in 0..m}

\* the sub-sequences of 1..n: what a selector can return, in document order
RECURSIVE Range(_, _)
Range(a, b) == IF a > b THEN <<>> ELSE <<a>> \o Range(a + 1, b)

SelectIds(n, S) == SelectSeq(Range(1, n), LAMBDA a : a \in S)

\* at most one element of the page is stale
StalePairs(n, m) ==
  {<<{}, {}>>} \cup {<<{a}, {}>> : a \in 1..n} \cup {<<{}, {h}>> : h \in 1..m}

\* the page of the anchors hr and the headings hs, where the anchors R match
\* a.result__a and the elements st are stale
Page(hr, hs, R, st) ==
  [href |-> hr, h3s |-> hs, rl |-> SelectIds(Len(hr), R), staleA |-> st[1], staleH |-> st[2]]

\* driver.find_elements(By.CSS_SELECTOR, "a[href]")
AnchorsWithHref(p) == SelectSeq(Range(1, Len(p.href)), LAMBDA a : p.href[a] # <<>>)

(*********************** the candidate collector ***************************)
\* `if href and href.startswith("http")`
HttpHref(href) == href # <<>> /\ StartsWith(href, HTTP)

\* the anchor of one heading: ./ancestor::a[1], else a descendant <a>, else None
HeadingAnchor(h) == IF h.anc # 0 THEN h.anc ELSE h.desc

\* Tier 1.  A raise other than NoSuchElementException leaves the loop for the
\* `except Exception: pass` that encloses the whole tier.
RECURSIVE Tier1(_, _, _)
Tier1(p, k, acc) ==
  IF k > Len(p.h3s) THEN acc
  ELSE IF k \in p.staleH THEN acc
  ELSE LET a == HeadingAnchor(p.h3s[k]) IN
       IF a = 0 THEN Tier1(p, k + 1, acc)
       ELSE IF a \in p.staleA THEN acc
       ELSE IF HttpHref(p.href[a]) THEN Tier1(p, k + 1, Append(acc, a))
       ELSE Tier1(p, k + 1, acc)

\* Tier 2: a.result__a
RECURSIVE Tier2(_, _, _)
Tier2(p, k, acc) ==
  IF k > Len(p.rl) THEN acc
  ELSE LET a == p.rl[k] IN
       IF a \in p.staleA THEN acc
       ELSE IF HttpHref(p.href[a]) /\ ~InSeq(a, acc) THEN Tier2(p, k + 1, Append(acc, a))
       ELSE Tier2(p, k + 1, acc)

\* Tier 3: a[href], without the search engine's own links
RECURSIVE Tier3(_, _, _, _)
Tier3(p, as, k, acc) ==
  IF k > Len(as) THEN acc
  ELSE LET a == as[k] IN
       IF a \in p.staleA THEN acc
       ELSE IF HttpHref(p.href[a]) /\ ~Contains(p.href[a], DDG) /\ ~InSeq(a, acc)
            THEN Tier3(p, as, k + 1, Append(acc, a))
       ELSE Tier3(p, as, k + 1, acc)

Collect(p) == Tier3(p, AnchorsWithHref(p), 1, Tier2(p, 1, Tier1(p, 1, <<>>)))

(************************ the candidate selector ***************************)
\* `if preferred_domains is None: preferred_domains = []`
PrefsOrEmpty(prefs) == IF prefs.isNone THEN <<>> ELSE prefs.list

\* lower_prefs = [p.lower() for p in preferred_domains]
LowerPrefs(pl) == [k \in 1..Len(pl) |-> Lower(pl[k])]

\* the inner loop: `for pref in lower_prefs: if pref in href`
MatchesAny(href, lps) == \E k \in 1..Len(lps) : Contains(Lower(href), lps[k])

\* (a scan with the loops exchanged: the first preferred domain that some
\* candidate matches decides)
PreferredScan_DomainsOuter(p, cands, lps, k) ==
  LET hit(d) == {c \in k..Len(cands) : Contains(Lower(p.href[cands[c]]), lps[d])}
      ds == {d \in 1..Len(lps) : hit(d) # {}}
  IN IF ds = {} THEN 0
     ELSE LET d0 == CHOOSE d \in ds : \A e \in ds : d <= e
          IN CHOOSE c \in hit(d0) : \A e \in hit(d0) : c <= e

\* the outer loop over the candidates: the position of the first candidate
\* that matches, 0 when the loop ends without a match
RECURSIVE PreferredScan(_, _, _, _)
PreferredScan(p, cands, lps, k) ==
  IF k > Len(cands) THEN 0
  ELSE IF MatchesAny(p.href[cands[k]], lps) THEN k
  ELSE PreferredScan(p, cands, lps, k + 1)

\* (a fallback that takes the last candidate)
Fallback_Last(cands) == cands[Len(cands)]

\* the fallback: `candidates[0]`
Fallback(cands) == cands[1]

\* the outcome of a call: a returned string or a raised exception, with the
\* candidates it collected and the element it selected (0 = none)
Return(v, cands, sel) == [kind |-> "return", val |-> v, candidates |-> cands, sel |-> sel]
Raise(msg, cands, sel) == [kind |-> "raise", val |-> msg, candidates |-> cands, sel |-> sel]

(******************************* driver ************************************)
\* The browser calls of one step that raise.  A raise at an unguarded call
\* ends the step, so that of any set of failing calls only the first
\* unguarded one acts, together with the guarded ones before it: the sets
\* below are one unguarded call at most, with or without the guarded ones.
ClickUnguarded == {"wh_before", "wait_results", "scan_href", "open_href", "get_href",
                   "wh_after", "wait_url", "cur_url"}
ClickGuarded == {"switch_new"}
ExtractUnguarded == {"scan_href", "first_href"}
CleanupUnguarded == {"wh_main", "switch_main"}

FaultSets(unguarded, guarded) ==
  {U \cup G : U \in {{}} \cup {{u} : u \in unguarded}, G \in SUBSET guarded}

\* what el.click() does: it navigates the window, opens a new one, does
\* nothing, or raises a WebDriverException
ClickOutcomes == {"nav", "newwin", "noop", "raise"}

Windows == 1..MaxWindows

\* a fresh session: one window showing the blank page
NewDriver ==
  [window_handles |-> <<1>>, focus |-> 1, url |-> [w \in Windows |-> IF w = 1 THEN BLANK ELSE <<>>]]

HandleSet(d) == {d.window_handles[k] : k \in 1..Len(d.window_handles)}

\* driver.current_url
current_url(d) == d.url[d.focus]

\* driver.get(url): loads url in the focused window
DriverGet(d, u) == [d EXCEPT !.url[d.focus] = u]

\* a click that opens its target in a new window, which does not take the focus
OpenWindow(d, u) ==
  LET w == CHOOSE x \in Windows \ HandleSet(d) : \A y \in Windows \ HandleSet(d) : x <= y
  IN [d EXCEPT !.window_handles = Append(@, w), !.url[w] = u]

\* driver.switch_to.window(h)
SwitchTo(d, h) == [d EXCEPT !.focus = h]

\* driver.close(): closes the focused window; the focus is left on it
CloseFocused(d) ==
  [d EXCEPT !.window_handles = SelectSeq(@, LAMBDA w : w # d.focus), !.url[d.focus] = <<>>]

(***************************** navigate mode *******************************)
\* _open_element(el): the driver it leaves and what it returns or raises
open_element(d, nBefore, p, el, cands, F, oc, msg) ==
  LET href == p.href[el] IN
  IF "open_href" \in F THEN [driver |-> d, out |-> Raise(msg, cands, el)]
  ELSE IF oc = "raise" /\ href # <<>> /\ "get_href" \in F
       THEN [driver |-> d, out |-> Raise(msg, cands, el)]
  ELSE
    LET d1 == IF oc = "nav" \/ (oc = "raise" /\ href # <<>>) THEN DriverGet(d, href)
              ELSE IF oc = "newwin" THEN OpenWindow(d, href)
              ELSE d
    IN IF "wh_after" \in F THEN [driver |-> d1, out |-> Raise(msg, cands, el)]
       ELSE
         LET after == d1.window_handles
             d2 == IF Len(after) > nBefore /\ "switch_new" \notin F
                   THEN SwitchTo(d1, after[Len(after)])
                   ELSE d1
         IN IF "wait_url" \in F \/ "cur_url" \in F
            THEN [driver |-> d2, out |-> Raise(msg, cands, el)]
            ELSE [driver |-> d2, out |-> Return(current_url(d2), cands, el)]

\* click_first_h3_or_fallback(driver, preferred_domains) on page p, where the
\* browser calls F raise with message msg and a click has outcome oc
click_first_h3_or_fallback(d, p, prefs, F, oc, msg) ==
  IF "wh_before" \in F \/ "wait_results" \in F
  THEN [driver |-> d, out |-> Raise(msg, <<>>, 0)]
  ELSE
    LET nBefore == Len(d.window_handles)
        cands == Collect(p)
        pl == PrefsOrEmpty(prefs)
        k == IF pl # <<>> /\ cands # <<>> THEN PreferredScan(p, cands, LowerPrefs(pl), 1) ELSE 0
    IN IF pl # <<>> /\ cands # <<>> /\ "scan_href" \in F
       THEN [driver |-> d, out |-> Raise(msg, cands, 0)]
       ELSE IF k # 0 THEN open_element(d, nBefore, p, cands[k], cands, F, oc, msg)
       ELSE IF cands # <<>> THEN open_element(d, nBefore, p, Fallback(cands), cands, F, oc, msg)
       ELSE [driver |-> d, out |-> Return(ERR_NO_LINK, cands, 0)]

(**************************** extract-only mode ****************************)
\* (an extraction that opens the link it selects)
extract_by_click(d, p, prefs, F, msg) ==
  click_first_h3_or_fallback(d, p, prefs, {}, "nav", msg)

\* extract_preferred_href(driver, preferred_domains) on page p
extract_preferred_href(d, p, prefs, F, msg) ==
  LET cands == Collect(p)
      pl == PrefsOrEmpty(prefs)
      k == IF pl # <<>> /\ cands # <<>> THEN PreferredScan(p, cands, LowerPrefs(pl), 1) ELSE 0
  IN IF pl # <<>> /\ cands # <<>> /\ "scan_href" \in F
     THEN [driver |-> d, out |-> Raise(msg, cands, 0)]
     ELSE IF k # 0 THEN [driver |-> d, out |-> Return(p.href[cands[k]], cands, cands[k])]
     ELSE IF cands # <<>>
          THEN IF "first_href" \in F
               THEN [driver |-> d, out |-> Raise(msg, cands, 0)]
               ELSE [driver |-> d, out |-> Return(p.href[Fallback(cands)], cands, Fallback(cands))]
     ELSE [driver |-> d, out |-> Return(ERR_NO_LINK, cands, 0)]

(****************************** the files **********************************)
\* lines of an input file, without their line terminators
Lines == {<<>>, <<" ">>, <<" ","q">>, <<"r"," ","s"," ">>}
InputFiles == SeqsUpTo(Lines, MaxLines)

\* read_queries(path)
RECURSIVE read_queries(_)
read_queries(f) ==
  IF f = <<>> THEN <<>>
  ELSE LET q == Strip(Head(f)) IN
       IF q # <<>> THEN <<q>> \o read_queries(Tail(f)) ELSE read_queries(Tail(f))

\* str.split(sep), sep one character
RECURSIVE Split(_, _, _)
Split(s, sep, cur) ==
  IF s = <<>> THEN <<cur>>
  ELSE IF Head(s) = sep THEN <<cur>> \o Split(Tail(s), sep, <<>>)
  ELSE Split(Tail(s), sep, Append(cur, Head(s)))

\* [p.strip() for p in parts if p.strip()]
RECURSIVE StripNonEmpty(_)
StripNonEmpty(parts) ==
  IF parts = <<>> THEN <<>>
  ELSE LET q == Strip(Head(parts)) IN
       IF q # <<>> THEN <<q>> \o StripNonEmpty(Tail(parts)) ELSE StripNonEmpty(Tail(parts))

\* the --prefer list: None unless args.prefer is non-empty
parse_prefer(arg) ==
  IF arg # <<>> THEN SomeList(StripNonEmpty(Split(arg, ",", <<>>))) ELSE NoneList

\* write_result(path, query, url): the file after the append
write_result(file, query, url) == file \o query \o <<TAB>> \o url \o <<NL>>

(****************************** the state **********************************)
VARIABLES
  pc,          \* position in main(); "unit" when a function is exercised alone
  inputFile,   \* the lines of args.input
  click,       \* args.click
  prefer,      \* args.prefer
  prefer_list, \* the parsed --prefer list
  queries,     \* read_queries(args.input)
  i,           \* the loop index of main()
  output,      \* the characters appended to args.output
  session,     \* "none", "open" or "quit": the browser session of setup_driver
  driver,      \* the browser's windows
  page,        \* the page loaded in the focused window
  out,         \* the outcome of the last call of a selection function
  lastCall,    \* "none", "extract" or "click"
  calls,       \* calls of the selection functions made on this page
  exc,         \* the exception escaping the query loop, "none" if there is none
  results,     \* history: the result_url written for every query so far
  searched,    \* history: the queries whose search was issued
  closeFailed, \* history: windows the last window reset failed to close
  quitCount,   \* history: calls of driver.quit()
  opsAfterQuit \* history: a browser call was issued after driver.quit()

vars == <<pc, inputFile, click, prefer, prefer_list, queries, i, output, session, driver, page,
          out, lastCall, calls, exc, results, searched, closeFailed, quitCount, opsAfterQuit>>

NoPage == [href |-> <<>>, h3s |-> <<>>, rl |-> <<>>, staleA |-> {}, staleH |-> {}]
NoOut == Return(<<>>, <<>>, 0)

\* the pages a search of main() can load
PG_RESULTS ==
  [href |-> <<U_A, U_B>>, h3s |-> <<[anc |-> 1, desc |-> 0]>>, rl |-> <<1, 2>>,
   staleA |-> {}, staleH |-> {}]
MainPages == {NoPage, PG_RESULTS}
\* values of --prefer
PreferArgs == {<<>>, <<" ","B",".","C","O",",">>}

mainVarsIdle ==
  /\ inputFile = <<>> /\ click = FALSE /\ prefer = <<>> /\ queries = <<>> /\ i = 0 /\ output = <<>>
  /\ session = "open" /\ exc = "none" /\ results = <<>> /\ searched = <<>>
  /\ closeFailed = {} /\ quitCount = 0 /\ opsAfterQuit = FALSE

(******************** the selection functions alone ************************)
InitPage ==
  /\ pc = "unit"
  /\ \E n \in 0..MaxElements :
     \E hr \in [1..n -> Hrefs], hs \in SeqsUpTo(H3s(n), MaxElements - n), R \in SUBSET (1..n) :
     \E st \in StalePairs(n, Len(hs)) :
       page = Page(hr, hs, R, st)
  /\ prefer_list \in PrefLists
  /\ driver = DriverGet(NewDriver, SEARCH_PREFIX)
  /\ out = NoOut /\ lastCall = "none" /\ calls = 0
  /\ mainVarsIdle

\* a call of extract_preferred_href on the page, every browser call of which
\* succeeds (Spec explores the calls that raise); it may be repeated
CallExtract ==
  /\ pc = "unit" /\ calls < 2 /\ lastCall # "click"
  /\ LET r == extract_preferred_href(driver, page, prefer_list, {}, MSG_WD) IN
       /\ driver' = r.driver
       /\ out' = r.out
  /\ lastCall' = "extract" /\ calls' = calls + 1
  /\ UNCHANGED <<pc, inputFile, click, prefer, prefer_list, queries, i, output, session, page,
                 exc, results, searched, closeFailed, quitCount, opsAfterQuit>>

\* a call of click_first_h3_or_fallback on the page, every browser call of
\* which succeeds but, for one outcome of the click, el.click()
CallClick ==
  /\ pc = "unit" /\ calls = 0
  /\ \E oc \in ClickOutcomes :
       LET r == click_first_h3_or_fallback(driver, page, prefer_list, {}, oc, MSG_WD) IN
       /\ driver' = r.driver
       /\ out' = r.out
  /\ lastCall' = "click" /\ calls' = calls + 1
  /\ UNCHANGED <<pc, inputFile, click, prefer, prefer_list, queries, i, output, session, page,
                 exc, results, searched, closeFailed, quitCount, opsAfterQuit>>

NextPage == CallExtract \/ CallClick

SpecPage == InitPage /\ [][NextPage]_vars

(******************************** main() ***********************************)
Init ==
  /\ pc = "start"
  /\ inputFile \in InputFiles
  /\ click \in BOOLEAN
  /\ prefer \in PreferArgs
  /\ prefer_list = NoneList
  /\ queries = <<>> /\ i = 0 /\ output = <<>>
  /\ session = "none" /\ driver = NewDriver /\ page = NoPage
  /\ out = NoOut /\ lastCall = "none" /\ calls = 0
  /\ exc = "none" /\ results = <<>> /\ searched = <<>>
  /\ closeFailed = {} /\ quitCount = 0 /\ opsAfterQuit = FALSE

\* the --prefer list is parsed; queries = read_queries(args.input);
\* `if not queries: return`
ReadQueries ==
  /\ pc = "start"
  /\ prefer_list' = parse_prefer(prefer)
  /\ queries' = read_queries(inputFile)
  /\ pc' = IF queries' = <<>> THEN "done" ELSE "setup"
  /\ UNCHANGED <<inputFile, click, prefer, i, output, session, driver, page, out,
                 lastCall, calls, exc, results, searched, closeFailed, quitCount,
                 opsAfterQuit>>

\* driver = setup_driver(...): a session, or the launch fails and main() raises
SetupDriver ==
  /\ pc = "setup"
  /\ \E ok \in BOOLEAN :
       IF ok
       THEN /\ session' = "open" /\ driver' = NewDriver /\ i' = 1 /\ pc' = "loop"
            /\ exc' = exc
       ELSE /\ pc' = "raised" /\ exc' = "launch"
            /\ UNCHANGED <<session, driver, i>>
  /\ UNCHANGED <<inputFile, click, prefer, prefer_list, queries, output, page, out, lastCall,
                 calls, results, searched, closeFailed, quitCount, opsAfterQuit>>

\* the head of one iteration: driver.get(search_url), which loads the page,
\* raises a WebDriverException (the error is written, `continue`) or raises
\* anything else (nothing catches it inside the loop)
Search ==
  /\ pc = "loop" /\ i <= Len(queries)
  /\ searched' = Append(searched, i)
  /\ opsAfterQuit' = (opsAfterQuit \/ session = "quit")
  /\ \E load \in {"ok", "WebDriverException", "other"}, pg \in MainPages, msg \in ExcMsgs :
       LET q == queries[i]
           search_url == SEARCH_PREFIX \o quote_plus(q)
       IN CASE load = "ok" ->
                 /\ driver' = DriverGet(driver, search_url)
                 /\ page' = pg /\ calls' = 0 /\ pc' = "process"
                 /\ UNCHANGED <<output, results, i, exc>>
            [] load = "WebDriverException" ->
                 /\ output' = write_result(output, q, ERR_LOAD \o msg)
                 /\ results' = Append(results, ERR_LOAD \o msg)
                 /\ i' = i + 1
                 /\ UNCHANGED <<driver, page, calls, pc, exc>>
            [] load = "other" ->
                 /\ pc' = "finally" /\ exc' = "get"
                 /\ UNCHANGED <<driver, page, calls, output, results, i>>
  /\ UNCHANGED <<inputFile, click, prefer, prefer_list, queries, session, out, lastCall,
                 closeFailed, quitCount>>

\* the selection of one iteration and write_result
Process ==
  /\ pc = "process"
  /\ opsAfterQuit' = (opsAfterQuit \/ session = "quit")
  /\ \E F \in (IF click THEN FaultSets(ClickUnguarded, ClickGuarded)
                         ELSE FaultSets(ExtractUnguarded, {})),
        oc \in (IF click THEN ClickOutcomes ELSE {"noop"}),
        msg \in ExcMsgs :
       /\ oc = "newwin" => Len(driver.window_handles) < MaxWindows
       /\ LET r == IF click
                   THEN click_first_h3_or_fallback(driver, page, prefer_list, F, oc, msg)
                   ELSE extract_preferred_href(driver, page, prefer_list, F, msg)
              result_url == IF r.out.kind = "return" THEN r.out.val ELSE ERR_PROC \o r.out.val
          IN /\ driver' = r.driver
             /\ out' = r.out
             /\ output' = write_result(output, queries[i], result_url)
             /\ results' = Append(results, result_url)
  /\ lastCall' = IF click THEN "click" ELSE "extract"
  /\ calls' = calls + 1
  /\ pc' = "cleanup"
  /\ UNCHANGED <<inputFile, click, prefer, prefer_list, queries, i, session, page, exc, searched,
                 closeFailed, quitCount>>

\* `for h in handles[1:]`: switch to h and close it, and pass over a failure
RECURSIVE CloseExtras(_, _, _, _, _)
CloseExtras(d, handles, k, failSwitch, failClose) ==
  IF k > Len(handles) THEN d
  ELSE LET h == handles[k] IN
       IF h \in failSwitch THEN CloseExtras(d, handles, k + 1, failSwitch, failClose)
       ELSE IF h \in failClose
            THEN CloseExtras(SwitchTo(d, h), handles, k + 1, failSwitch, failClose)
       ELSE CloseExtras(CloseFocused(SwitchTo(d, h)), handles, k + 1, failSwitch, failClose)

\* (a reset that does not return to the primary window)
ResetWindows_NoSwitchBack(d, failSwitch, failClose) ==
  CloseExtras(d, d.window_handles, 2, failSwitch, failClose)

\* the window reset that ends an iteration
ResetWindows(d, failSwitch, failClose) ==
  LET handles == d.window_handles IN
  IF Len(handles) > 1
  THEN SwitchTo(CloseExtras(d, handles, 2, failSwitch, failClose), handles[1])
  ELSE d

\* the driver when the reset's last switch raises
ResetWindowsRaised(d, failSwitch, failClose) ==
  CloseExtras(d, d.window_handles, 2, failSwitch, failClose)

Cleanup ==
  /\ pc = "cleanup"
  /\ opsAfterQuit' = (opsAfterQuit \/ session = "quit")
  /\ \E F \in FaultSets(CleanupUnguarded, {}) :
     \E failSwitch \in SUBSET (HandleSet(driver) \ {driver.window_handles[1]}) :
     \E failClose \in SUBSET (HandleSet(driver) \ {driver.window_handles[1]}) :
       IF "wh_main" \in F
       THEN /\ pc' = "finally" /\ exc' = "window_handles"
            /\ UNCHANGED <<driver, i, closeFailed>>
       ELSE IF Len(driver.window_handles) > 1 /\ "switch_main" \in F
       THEN /\ pc' = "finally" /\ exc' = "switch_to"
            /\ driver' = ResetWindowsRaised(driver, failSwitch, failClose)
            /\ closeFailed' = (failSwitch \cup failClose)
            /\ i' = i
       ELSE /\ driver' = ResetWindows(driver, failSwitch, failClose)
            /\ closeFailed' = (failSwitch \cup failClose)
            /\ i' = i + 1 /\ pc' = "loop" /\ exc' = exc
  /\ UNCHANGED <<inputFile, click, prefer, prefer_list, queries, output, session, page, out,
                 lastCall, calls, results, searched, quitCount>>

\* the for loop is exhausted
LoopExit ==
  /\ pc = "loop" /\ i > Len(queries)
  /\ pc' = "finally"
  /\ UNCHANGED <<inputFile, click, prefer, prefer_list, queries, i, output, session, driver, page,
                 out, lastCall, calls, exc, results, searched, closeFailed, quitCount,
                 opsAfterQuit>>

\* (a teardown on the normal path only, as without try/finally)
Finally_OnReturnOnly ==
  /\ pc = "finally"
  /\ IF exc = "none"
     THEN /\ session' = "quit" /\ quitCount' = quitCount + 1 /\ pc' = "done"
          /\ driver' = [driver EXCEPT !.window_handles = <<>>]
     ELSE /\ pc' = "raised" /\ UNCHANGED <<session, quitCount, driver>>
  /\ opsAfterQuit' = (opsAfterQuit \/ session = "quit")
  /\ UNCHANGED <<inputFile, click, prefer, prefer_list, queries, i, output, page, out, lastCall,
                 calls, exc, results, searched, closeFailed>>

\* finally: driver.quit(); then main() returns, or the exception propagates
Finally ==
  /\ pc = "finally"
  /\ session' = "quit"
  /\ quitCount' = quitCount + 1
  /\ opsAfterQuit' = (opsAfterQuit \/ session = "quit")
  /\ driver' = [driver EXCEPT !.window_handles = <<>>]
  /\ pc' = IF exc = "none" THEN "done" ELSE "raised"
  /\ UNCHANGED <<inputFile, click, prefer, prefer_list, queries, i, output, page, out, lastCall,
                 calls, exc, results, searched, closeFailed>>

Next == ReadQueries \/ SetupDriver \/ Search \/ Process \/ Cleanup \/ LoopExit \/ Finally

Spec == Init /\ [][Next]_vars

(******************************* claims ************************************)
\* the lines of a text, each ended by a newline
RECURSIVE SplitLines(_, _)
SplitLines(s, cur) ==
  IF s = <<>> THEN (IF cur = <<>> THEN <<>> ELSE <<cur>>)
  ELSE IF Head(s) = NL THEN <<cur>> \o SplitLines(Tail(s), <<>>)
  ELSE SplitLines(Tail(s), Append(cur, Head(s)))

NonBlank(line) == \E k \in 1..Len(line) : ~IsSpace(line[k])

FnCalled == pc = "unit" /\ calls > 0

\* candidate k of the last call matches a preferred domain
C2Match(k) ==
  \E d \in 1..Len(prefer_list.list) :
    Contains(Lower(page.href[out.candidates[k]]), Lower(prefer_list.list[d]))

HasPrefs == ~prefer_list.isNone /\ prefer_list.list # <<>>

\* C1: a run of main() that ends without an exception leaves in the output
\* file exactly one line per non-blank line of the input file, in input
\* order, each of the form query<TAB>result_or_error.
C1_OneLinePerQuery ==
  pc = "done" =>
    LET ls == SplitLines(output, <<>>) IN
    /\ Len(ls) = Cardinality({k \in 1..Len(inputFile) : NonBlank(inputFile[k])})
    /\ Len(ls) = Len(results)
    /\ \A k \in 1..Len(ls) : ls[k] = queries[k] \o <<TAB>> \o results[k]

\* C2: with a non-empty preferred-domain list and a candidate whose
\* lowercased href contains a lowercased preferred domain, both selection
\* functions select the earliest such candidate in collector order (and
\* extract-only mode returns its href).
C2_EarliestPreferred ==
  (FnCalled /\ out.kind = "return" /\ HasPrefs
     /\ \E k \in 1..Len(out.candidates) : C2Match(k))
  => \E k \in 1..Len(out.candidates) :
       /\ C2Match(k)
       /\ \A j \in 1..(k - 1) : ~C2Match(j)
       /\ out.sel = out.candidates[k]
       /\ lastCall = "extract" => out.val = page.href[out.candidates[k]]

C2_Witness ==
  /\ FnCalled /\ out.kind = "return" /\ HasPrefs
  /\ Len(out.candidates) >= 2
  /\ ~C2Match(1) /\ C2Match(2)
  /\ out.sel = out.candidates[2]
  /\ page.href[out.sel] # Lower(page.href[out.sel])

\* C3: with no preferred domains (None or empty), or when no candidate
\* matches one, the first candidate is selected; with no candidates at all
\* the call returns exactly "ERROR: no suitable link found" and selects
\* nothing.
C3_FallbackFirst ==
  (FnCalled /\ out.kind = "return"
     /\ (~HasPrefs \/ \A k \in 1..Len(out.candidates) : ~C2Match(k)))
  => IF out.candidates = <<>>
     THEN out.val = ERR_NO_LINK /\ out.sel = 0
     ELSE /\ out.sel = out.candidates[1]
          /\ lastCall = "extract" => out.val = page.href[out.candidates[1]]

C3_Witness ==
  /\ FnCalled /\ out.kind = "return" /\ HasPrefs /\ lastCall = "extract"
  /\ Len(out.candidates) >= 2
  /\ \A k \in 1..Len(out.candidates) : ~C2Match(k)
  /\ out.candidates[1] # out.candidates[2]
  /\ out.val = page.href[out.candidates[1]]

\* the tier that first offers anchor a
TierOf(p, a) ==
  IF \E k \in 1..Len(p.h3s) : HeadingAnchor(p.h3s[k]) = a THEN 1
  ELSE IF InSeq(a, p.rl) THEN 2
  ELSE 3

\* C4: the candidate sequence holds no anchor element twice and, on a page
\* without failing elements, is ordered tier 1 before tier 2 before tier 3.
C4_NoDuplicates ==
  (FnCalled /\ out.kind = "return") =>
    LET c == out.candidates IN
    /\ \A j, k \in 1..Len(c) : j < k => c[j] # c[k]
    /\ (page.staleA = {} /\ page.staleH = {}) =>
         \A j, k \in 1..Len(c) : j < k => TierOf(page, c[j]) <= TierOf(page, c[k])

\* C5: once the session is launched, no failure while handling one query
\* (driver.get raising something other than a WebDriverException set aside)
\* aborts the run: every query is searched and gets its result written.
C5_RunNeverAborts ==
  (session = "quit" /\ exc # "get") =>
    /\ Len(searched) = Len(queries)
    /\ Len(results) = Len(queries)

\* C6: a call of extract_preferred_href leaves the windows, the focus, the
\* URLs and the page as they were, and a second call in a row that returns
\* returns the string the first returned.
C6_ExtractNoMutation ==
  [][(pc = "unit" /\ lastCall' = "extract" /\ calls' = calls + 1) =>
       /\ driver' = driver
       /\ page' = page
       /\ (lastCall = "extract" /\ out.kind = "return" /\ out'.kind = "return")
            => out'.val = out.val]_vars

C6_Witness ==
  /\ pc = "unit" /\ calls = 2 /\ lastCall = "extract"
  /\ out.kind = "return" /\ out.sel # 0
  /\ driver = DriverGet(NewDriver, SEARCH_PREFIX)

\* C7: once a session is launched, main() ends (returning or raising) with
\* driver.quit() called exactly once and no browser call after it; with no
\* queries no session is launched.
C7_QuitExactlyOnce ==
  /\ quitCount <= 1
  /\ ~opsAfterQuit
  /\ (session = "none" => quitCount = 0)
  /\ (session = "quit" <=> quitCount = 1)
  /\ (pc \in {"done", "raised"} /\ exc # "launch" /\ queries # <<>>) => quitCount = 1
  /\ (pc # "start" /\ queries = <<>>) => (session = "none" /\ pc = "done")

C7_Witness ==
  /\ pc = "raised" /\ exc = "window_handles" /\ session = "quit" /\ quitCount = 1
  /\ Len(searched) < Len(queries)

\* an element of a tier that can be added: it is not the failing element,
\* and its href starts with http
Addable(p, a) == a # 0 /\ a \notin p.staleA /\ HttpHref(p.href[a])

\* C8: in each tier, a failing element is the only one skipped: every other
\* element of the tier with an http href (in tier 3: not a search-engine
\* link) is among the candidates.
C8_FailureSkipsOneElement ==
  (FnCalled /\ out.kind = "return") =>
    LET c == out.candidates IN
    /\ \A k \in 1..Len(page.h3s) :
         (k \notin page.staleH /\ Addable(page, HeadingAnchor(page.h3s[k])))
           => InSeq(HeadingAnchor(page.h3s[k]), c)
    /\ \A k \in 1..Len(page.rl) : Addable(page, page.rl[k]) => InSeq(page.rl[k], c)
    /\ \A a \in 1..Len(page.href) :
         (Addable(page, a) /\ ~Contains(page.href[a], DDG)) => InSeq(a, c)

\* C9: click_first_h3_or_fallback never raises to its caller.
C9_ClickNeverRaises == lastCall = "click" => out.kind = "return"

AtNextSearch == pc = "loop" /\ 1 < i /\ i <= Len(queries)

\* C10 as stated: when the search of the next query is issued, only the
\* primary window is open and it has the focus.
C10_WindowsReset ==
  AtNextSearch =>
    /\ Len(driver.window_handles) = 1
    /\ driver.focus = driver.window_handles[1]

\* C10: when the search of the next query is issued, the focus is on the
\* primary window, and every other window still open is one that the last
\* window reset failed to switch to or to close.
C10_FocusReset ==
  AtNextSearch =>
    /\ driver.focus = driver.window_handles[1]
    /\ (HandleSet(driver) \ {driver.window_handles[1]}) \subseteq closeFailed

C10_Witness ==
  /\ AtNextSearch /\ lastCall = "click"
  /\ Len(driver.window_handles) = 2
  /\ out.kind = "return" /\ out.val = U_B
  /\ driver.focus = driver.window_handles[1]

=============================================================================
